---- MODULE Spec2Model ----
(***************************************************************************)
(* Model of artwork_inventory.py: a command-line inventory manager that    *)
(* maps each subcommand to one parameterised statement on the SQLite table *)
(* "artwork".  One step of the model is one invocation of main().          *)
(*                                                                         *)
(* Optional values (Python None / SQL NULL) are encoded as sequences:      *)
(* None is <<>> and a present value v is <<v>>.                            *)
(***************************************************************************)
EXTENDS FiniteSets, Integers, Sequences, TLC

\* schema    the table artwork exists in the store file
\* table     the rows of artwork
\* seq       the largest id ever assigned (AUTOINCREMENT's sqlite_sequence)
\* argv, out the parsed arguments and the printed output of an invocation
\* addedIds  history: the ids printed by the successful adds, in order
\* onlyAdds  history: no subcommand other than add has run
\* noted     history: one remove --id I of the run (kept under SpecNoted only)
VARIABLES schema, table, seq, argv, out, addedIds, onlyAdds, noted

vars == <<schema, table, seq, argv, out, addedIds, onlyAdds, noted>>

(* ---------------------------- bounds ----------------------------------- *)

\* number of successful adds explored
MaxId == 2

\* quantities explored lie in -MaxAbsQty .. MaxAbsQty
MaxAbsQty == 1

(* ------------------------- optional values ----------------------------- *)

None == <<>>

Some(v) == <<v>>

\* SQL "a = b": never true when either side is NULL
SqlEq(a, b) == a # None /\ b # None /\ a = b

\* Python truthiness of an Optional[str]: None and "" are falsy
Truthy(s) == s # None /\ s # Some("")

(* ------------------------ command-line inputs -------------------------- *)

\* argument tuples of "add" as argparse delivers them (title always present,
\* quantity defaults to 0)
AddInputs ==
    { [title |-> Some("Sunset"), artist |-> Some("A. Painter"), year |-> Some(2020),
       price |-> Some(150), quantity |-> 1, sku |-> Some("SUN-001")],
      [title |-> Some("Dusk"), artist |-> None, year |-> Some(2021),
       price |-> None, quantity |-> 1, sku |-> Some("SUN-001")],
      [title |-> Some("Dawn"), artist |-> Some("B. Sculptor"), year |-> None,
       price |-> Some(80), quantity |-> 0, sku |-> None],
      [title |-> Some(""), artist |-> None, year |-> None,
       price |-> None, quantity |-> 0, sku |-> Some("")] }

IdArgs == {None} \cup {Some(i) : i \in 1..MaxId}

SkuArgs == {None, Some(""), Some("SUN-001")}

\* (--set N | --delta N): exactly one of the two is present
QtyArgs ==
    { [set_qty |-> Some(n), delta |-> None] : n \in {-1, 0, MaxAbsQty} }
    \cup { [set_qty |-> None, delta |-> Some(d)] : d \in {-1, 1} }

HelpArgs == {None, Some("add"), Some("bogus")}

SubCommands == {"init", "add", "remove", "update-qty", "list", "get", "help"}

(* ----------------------------- helpers --------------------------------- *)

Max(a, b) == IF a >= b THEN a ELSE b

RECURSIVE MaxRowId(_)
MaxRowId(t) ==
    IF t = {} THEN 0
    ELSE LET r == CHOOSE x \in t : TRUE IN Max(r.id, MaxRowId(t \ {r}))

\* ORDER BY id
RECURSIVE OrderById(_)
OrderById(t) ==
    IF t = {} THEN <<>>
    ELSE LET r == CHOOSE x \in t : \A y \in t : x.id <= y.id
         IN <<r>> \o OrderById(t \ {r})

Output(msg, n, rows, sql) == [msg |-> msg, n |-> n, rows |-> rows, sql |-> sql]

(* ------------------------------ schema --------------------------------- *)

\* plain INTEGER PRIMARY KEY: one more than the largest rowid now in the table
NextId_NoAutoincrement(t, s) == MaxRowId(t) + 1

\* rowid allocation that fills the lowest free id
NextId_LowestFree(t, s) ==
    CHOOSE i \in 1..(Cardinality(t) + 1) :
        /\ \A r \in t : r.id # i
        /\ \A j \in 1..(i - 1) : \E r \in t : r.id = j

\* id INTEGER PRIMARY KEY AUTOINCREMENT: one more than the largest rowid that
\* ever existed in the table (sqlite_sequence), never a reused one
NextId(t, s) == Max(s, MaxRowId(t)) + 1

\* sku TEXT without UNIQUE
UniqueViolation_Off(t, sku) == FALSE

\* sku TEXT UNIQUE: NULLs never collide
UniqueViolation(t, sku) == \E r \in t : SqlEq(r.sku, sku)

\* title TEXT NOT NULL
NotNullViolation(title) == title = None

(* ----------------------------- handlers -------------------------------- *)

\* INSERT with the title and artist values bound in each other's place
add_product_SwappedColumns(t, s, title, artist, year, price, quantity, sku) ==
    IF UniqueViolation(t, sku) \/ NotNullViolation(artist)
    THEN [table |-> t, seq |-> s, added |-> FALSE,
          out |-> Output("Error adding product:", 0, <<>>, "INSERT")]
    ELSE LET newid == NextId(t, s)
             row == [id |-> newid, sku |-> sku, title |-> artist, artist |-> title,
                     year |-> year, price |-> price, quantity |-> quantity]
         IN [table |-> t \cup {row}, seq |-> newid, added |-> TRUE,
             out |-> Output("Added product", newid, <<>>, "INSERT")]

\* INSERT INTO artwork (sku, title, artist, year, price, quantity) VALUES (...)
add_product(t, s, title, artist, year, price, quantity, sku) ==
    IF UniqueViolation(t, sku) \/ NotNullViolation(title)
    THEN [table |-> t, seq |-> s, added |-> FALSE,
          out |-> Output("Error adding product:", 0, <<>>, "INSERT")]
    ELSE LET newid == NextId(t, s)
             row == [id |-> newid, sku |-> sku, title |-> title, artist |-> artist,
                     year |-> year, price |-> price, quantity |-> quantity]
         IN [table |-> t \cup {row}, seq |-> newid, added |-> TRUE,
             out |-> Output("Added product", newid, <<>>, "INSERT")]

\* remove that prefers the sku over the id when both are given
remove_product_SkuFirst(t, id_, sku) ==
    IF id_ = None /\ sku = None
    THEN [table |-> t,
          out |-> Output("Provide --id or --sku to remove a product.", 0, <<>>, "NONE")]
    ELSE LET del == IF sku # None
                    THEN {r \in t : SqlEq(r.sku, sku)}
                    ELSE {r \in t : r.id = id_[1]}
             rowcount == Cardinality(del)
         IN [table |-> t \ del,
             out |-> IF rowcount # 0
                     THEN Output("Removed", rowcount, <<>>, "DELETE")
                     ELSE Output("No matching product found.", 0, <<>>, "DELETE")]

remove_product(t, id_, sku) ==
    IF id_ = None /\ sku = None
    THEN [table |-> t,
          out |-> Output("Provide --id or --sku to remove a product.", 0, <<>>, "NONE")]
    ELSE LET del == IF id_ # None
                    THEN {r \in t : r.id = id_[1]}
                    ELSE {r \in t : SqlEq(r.sku, sku)}
             rowcount == Cardinality(del)
         IN [table |-> t \ del,
             out |-> IF rowcount # 0
                     THEN Output("Removed", rowcount, <<>>, "DELETE")
                     ELSE Output("No matching product found.", 0, <<>>, "DELETE")]

\* the UPDATE statements with their effect on the table left open
update_quantity_With(t, id_, sku, set_qty, delta, guarded, where, newqty(_)) ==
    IF guarded /\ id_ = None /\ sku = None
    THEN [table |-> t,
          out |-> Output("Provide --id or --sku to identify a product.", 0, <<>>, "NONE")]
    ELSE LET hit == IF ~where THEN t
                    ELSE IF id_ # None
                    THEN {r \in t : r.id = id_[1]}
                    ELSE {r \in t : SqlEq(r.sku, sku)}
             rowcount == Cardinality(hit)
         IN [table |-> (t \ hit) \cup {[r EXCEPT !.quantity = newqty(r)] : r \in hit},
             out |-> IF rowcount # 0
                     THEN Output("Updated quantity for", rowcount, <<>>, "UPDATE")
                     ELSE Output("No matching product found.", 0, <<>>, "UPDATE")]

\* delta update that clamps the result at zero
update_quantity_Clamped(t, id_, sku, set_qty, delta) ==
    LET newqty(r) == IF set_qty # None THEN set_qty[1] ELSE Max(0, r.quantity + delta[1])
    IN update_quantity_With(t, id_, sku, set_qty, delta, TRUE, TRUE, newqty)

\* set update that adds the value instead of assigning it
update_quantity_SetAdds(t, id_, sku, set_qty, delta) ==
    LET newqty(r) == IF set_qty # None THEN r.quantity + set_qty[1] ELSE r.quantity + delta[1]
    IN update_quantity_With(t, id_, sku, set_qty, delta, TRUE, TRUE, newqty)

\* update without the missing-identifier check
update_quantity_NoGuard(t, id_, sku, set_qty, delta) ==
    LET newqty(r) == IF set_qty # None THEN set_qty[1] ELSE r.quantity + delta[1]
    IN update_quantity_With(t, id_, sku, set_qty, delta, FALSE, TRUE, newqty)

\* UPDATE without its WHERE clause
update_quantity_AllRows(t, id_, sku, set_qty, delta) ==
    LET newqty(r) == IF set_qty # None THEN set_qty[1] ELSE r.quantity + delta[1]
    IN update_quantity_With(t, id_, sku, set_qty, delta, TRUE, FALSE, newqty)

update_quantity(t, id_, sku, set_qty, delta) ==
    IF id_ = None /\ sku = None
    THEN [table |-> t,
          out |-> Output("Provide --id or --sku to identify a product.", 0, <<>>, "NONE")]
    ELSE IF set_qty = None /\ delta = None
    THEN [table |-> t,
          out |-> Output("Provide --set or --delta to change quantity.", 0, <<>>, "NONE")]
    ELSE LET hit == IF id_ # None
                    THEN {r \in t : r.id = id_[1]}
                    ELSE {r \in t : SqlEq(r.sku, sku)}
             newqty(r) == IF set_qty # None THEN set_qty[1] ELSE r.quantity + delta[1]
             rowcount == Cardinality(hit)
         IN [table |-> (t \ hit) \cup {[r EXCEPT !.quantity = newqty(r)] : r \in hit},
             out |-> IF rowcount # 0
                     THEN Output("Updated quantity for", rowcount, <<>>, "UPDATE")
                     ELSE Output("No matching product found.", 0, <<>>, "UPDATE")]

list_products(t, sku) ==
    LET rows == IF Truthy(sku)
                THEN OrderById({r \in t : SqlEq(r.sku, sku)})
                ELSE OrderById(t)
    IN IF rows = <<>>
       THEN Output("No products found.", 0, <<>>, "SELECT")
       ELSE Output("rows", Len(rows), rows, "SELECT")

\* the set of outputs get_product can print (fetchone takes any one matching row)
get_product(t, id_, sku) ==
    IF id_ = None /\ sku = None
    THEN {Output("Provide --id or --sku to get a product.", 0, <<>>, "NONE")}
    ELSE LET hit == IF id_ # None
                    THEN {r \in t : r.id = id_[1]}
                    ELSE {r \in t : SqlEq(r.sku, sku)}
         IN IF hit = {}
            THEN {Output("Product not found.", 0, <<>>, "SELECT")}
            ELSE {Output("dict", 1, <<r>>, "SELECT") : r \in hit}

help_command(cmd) ==
    IF cmd = None \/ cmd = Some("")
    THEN Output("usage", 0, <<>>, "NONE")
    ELSE IF cmd[1] \in SubCommands
    THEN Output("usage of command", 0, <<>>, "NONE")
    ELSE Output("Unknown command:", 0, <<>>, "NONE")

(* --------------------------- invocations ------------------------------- *)

(***************************************************************************)
(* A run is a sequence of invocations of main() on the same store.  The    *)
(* arguments (argv) and the printed output (out) are kept for the last     *)
(* invocation of the run only (last = TRUE); of the earlier ones only the  *)
(* effect on the store remains, as on a terminal that has been cleared.    *)
(***************************************************************************)

NoArgv == [cmd |-> "<cleared>"]

NoOutput == Output("", 0, <<>>, "NONE")

Running == argv = NoArgv

Terminal(last, a, o) ==
    /\ argv' = IF last THEN a ELSE NoArgv
    /\ out' = IF last THEN o ELSE NoOutput

Init ==
    /\ schema = FALSE
    /\ table = {}
    /\ seq = 0
    /\ argv = NoArgv
    /\ out = NoOutput
    /\ addedIds = <<>>
    /\ onlyAdds = TRUE
    /\ noted = None

\* get_conn(); init_db(conn): CREATE TABLE IF NOT EXISTS keeps existing rows
init_db == schema' = TRUE

ReadOnly == UNCHANGED <<table, seq, addedIds, noted>>

CmdInit(last) ==
    /\ Running
    /\ init_db
    /\ Terminal(last, [cmd |-> "init"], Output("Database initialized.", 0, <<>>, "NONE"))
    /\ onlyAdds' = FALSE
    /\ ReadOnly

CmdHelp(last, command) ==
    /\ Running
    /\ init_db
    /\ Terminal(last, [cmd |-> "help", command |-> command], help_command(command))
    /\ onlyAdds' = FALSE
    /\ ReadOnly

CmdNone(last) ==
    /\ Running
    /\ init_db
    /\ Terminal(last, [cmd |-> "<no subcommand>"], Output("usage", 0, <<>>, "NONE"))
    /\ onlyAdds' = FALSE
    /\ ReadOnly

CmdAdd(last, a) ==
    LET res == add_product(table, seq, a.title, a.artist, a.year, a.price, a.quantity, a.sku)
    IN /\ Running
       /\ res.added => Len(addedIds) < MaxId
       /\ init_db
       /\ Terminal(last, [cmd |-> "add", title |-> a.title, artist |-> a.artist,
                          year |-> a.year, price |-> a.price, quantity |-> a.quantity,
                          sku |-> a.sku], res.out)
       /\ table' = res.table
       /\ seq' = res.seq
       /\ addedIds' = IF res.added THEN Append(addedIds, res.out.n) ELSE addedIds
       /\ UNCHANGED <<onlyAdds, noted>>

CmdRemove(last, id_, sku) ==
    LET res == remove_product(table, id_, sku)
    IN /\ Running
       /\ init_db
       /\ Terminal(last, [cmd |-> "remove", id |-> id_, sku |-> sku], res.out)
       /\ table' = res.table
       /\ onlyAdds' = FALSE
       /\ UNCHANGED <<seq, addedIds, noted>>

\* the same invocation, where one remove --id I of the run is noted (note =
\* TRUE): its id I, and whether I was then at most the highest id assigned
CmdRemoveNoted(last, id_, sku, note) ==
    LET res == remove_product(table, id_, sku)
    IN /\ Running
       /\ note => (id_ # None /\ noted = None)
       /\ init_db
       /\ Terminal(last, [cmd |-> "remove", id |-> id_, sku |-> sku], res.out)
       /\ table' = res.table
       /\ onlyAdds' = FALSE
       /\ noted' = IF note THEN Some([id |-> id_[1], assigned |-> id_[1] <= seq]) ELSE noted
       /\ UNCHANGED <<seq, addedIds>>

CmdUpdateQty(last, id_, sku, q) ==
    LET res == update_quantity(table, id_, sku, q.set_qty, q.delta)
    IN /\ Running
       /\ \A r \in res.table : r.quantity \in -MaxAbsQty..MaxAbsQty
       /\ init_db
       /\ Terminal(last, [cmd |-> "update-qty", id |-> id_, sku |-> sku,
                          set_qty |-> q.set_qty, delta |-> q.delta], res.out)
       /\ table' = res.table
       /\ onlyAdds' = FALSE
       /\ UNCHANGED <<seq, addedIds, noted>>

CmdList(last, sku) ==
    /\ Running
    /\ init_db
    /\ Terminal(last, [cmd |-> "list", sku |-> sku], list_products(table, sku))
    /\ onlyAdds' = FALSE
    /\ ReadOnly

CmdGet(last, id_, sku) ==
    /\ Running
    /\ init_db
    /\ \E o \in get_product(table, id_, sku) :
          Terminal(last, [cmd |-> "get", id |-> id_, sku |-> sku], o)
    /\ onlyAdds' = FALSE
    /\ ReadOnly

\* main(): dispatch on args.cmd
Next ==
    \E last \in BOOLEAN :
        \/ CmdInit(last)
        \/ \E c \in HelpArgs : CmdHelp(last, c)
        \/ \E a \in AddInputs : CmdAdd(last, a)
        \/ \E i \in IdArgs, s \in SkuArgs : CmdRemove(last, i, s)
        \/ \E i \in IdArgs, s \in SkuArgs, q \in QtyArgs : CmdUpdateQty(last, i, s, q)
        \/ \E s \in SkuArgs : CmdList(last, s)
        \/ \E i \in IdArgs, s \in SkuArgs : CmdGet(last, i, s)
        \/ CmdNone(last)

Spec == Init /\ [][Next]_vars

\* main() again, keeping the history of remove --id
NextNoted ==
    \E last \in BOOLEAN :
        \/ CmdInit(last)
        \/ \E c \in HelpArgs : CmdHelp(last, c)
        \/ \E a \in AddInputs : CmdAdd(last, a)
        \/ \E i \in IdArgs, s \in SkuArgs, note \in BOOLEAN : CmdRemoveNoted(last, i, s, note)
        \/ \E i \in IdArgs, s \in SkuArgs, q \in QtyArgs : CmdUpdateQty(last, i, s, q)
        \/ \E s \in SkuArgs : CmdList(last, s)
        \/ \E i \in IdArgs, s \in SkuArgs : CmdGet(last, i, s)
        \/ CmdNone(last)

SpecNoted == Init /\ [][NextNoted]_vars

(* ------------------------- vocabulary of the claims --------------------- *)

Ids(t) == {r.id : r \in t}

\* the row the invocation a is meant to act on: by id when --id is given,
\* by sku only when --id is absent
Targeted(a, r) ==
    IF a.id # None THEN r.id = a.id[1]
    ELSE a.sku # None /\ r.sku = a.sku

Identified(a) == a.id # None \/ a.sku # None

AddSucceeded == addedIds' # addedIds

\* The claims about one invocation are stated on steps that keep argv and out,
\* that is on the last invocation of a run; every reachable store is the store
\* before such a step.

(* ------------------------------ claims ---------------------------------- *)

\* C1: an add whose sku equals the sku of a row already in the table creates no
\* row and leaves the whole table unchanged (it prints an error and ends
\* normally); in every reachable state no two rows share a non-null sku.
C1_DuplicateSkuRejected ==
    /\ [](\A r1 \in table : \A r2 \in table :
             (r1.sku # None /\ r1.sku = r2.sku) => r1 = r2)
    /\ [][(argv'.cmd = "add" /\ \E r \in table : r.sku # None /\ r.sku = argv'.sku)
             => (/\ table' = table
                 /\ seq' = seq
                 /\ out'.msg = "Error adding product:")]_vars

\* a duplicate add (with other field values than the stored row) was refused
C1_Witness ==
    /\ argv.cmd = "add"
    /\ out.msg = "Error adding product:"
    /\ \E r \in table : r.sku = argv.sku /\ r.title # argv.title

\* C2: every successful add is assigned an id strictly greater than every id
\* assigned earlier (also those of rows removed since, and whatever failed adds
\* came in between); it is the k-th id, k, when only adds have run; and no
\* command changes the id of an existing row (ids appear only through add).
C2_IdsStrictlyIncrease ==
    [][/\ AddSucceeded =>
            LET k == Len(addedIds')
                new == addedIds'[k]
            IN /\ addedIds' = Append(addedIds, new)
               /\ argv' # NoArgv => (out'.msg = "Added product" /\ out'.n = new)
               /\ Ids(table') = Ids(table) \cup {new}
               /\ \A j \in 1..Len(addedIds) : addedIds[j] < new
               /\ onlyAdds => new = k
       /\ ~AddSucceeded => Ids(table') \subseteq Ids(table)]_vars

\* an add succeeded after an earlier id had been removed
C2_Witness ==
    /\ argv.cmd = "add"
    /\ out.msg = "Added product"
    /\ ~onlyAdds
    /\ Len(addedIds) = MaxId
    /\ \E j \in 1..Len(addedIds) : addedIds[j] \notin Ids(table)

\* C3: update-qty --delta d on a row matched by id or sku whose quantity is q
\* leaves that row with quantity exactly q + d; nothing is clamped.
C3_DeltaAddsExactly ==
    [][(argv'.cmd = "update-qty" /\ argv'.delta # None /\ Identified(argv'))
          => \A r \in table : Targeted(argv', r) =>
                /\ \E r2 \in table' : r2.id = r.id
                /\ \A r2 \in table' :
                      r2.id = r.id => r2.quantity = r.quantity + argv'.delta[1]]_vars

\* quantity 0 with delta -1 gave -1
C3_Witness ==
    /\ argv.cmd = "update-qty"
    /\ argv.delta = Some(-1)
    /\ out.msg = "Updated quantity for"
    /\ \E r \in table : Targeted(argv, r) /\ r.quantity = -1

\* C4: update-qty --set N on a row matched by id or sku leaves that row with
\* quantity exactly N, whatever its prior quantity was.
C4_SetAssignsExactly ==
    [][(argv'.cmd = "update-qty" /\ argv'.set_qty # None /\ Identified(argv'))
          => \A r \in table : Targeted(argv', r) =>
                /\ \E r2 \in table' : r2.id = r.id
                /\ \A r2 \in table' : r2.id = r.id => r2.quantity = argv'.set_qty[1]]_vars

\* a negative value was set
C4_Witness ==
    /\ argv.cmd = "update-qty"
    /\ argv.set_qty = Some(-1)
    /\ out.msg = "Updated quantity for"
    /\ \E r \in table : Targeted(argv, r) /\ r.quantity = -1

\* C5: in remove, update-qty and get the target is selected by id alone when
\* --id is given (a --sku in the same invocation is ignored) and by sku only
\* when --id is absent.
C5_IdTakesPrecedence ==
    [][/\ (argv'.cmd = "remove" /\ Identified(argv'))
            => /\ table' = {r \in table : ~Targeted(argv', r)}
               /\ out'.n = Cardinality({r \in table : Targeted(argv', r)})
       /\ (argv'.cmd = "update-qty" /\ Identified(argv'))
            => /\ {r \in table' : ~Targeted(argv', r)} = {r \in table : ~Targeted(argv', r)}
               /\ out'.n = Cardinality({r \in table : Targeted(argv', r)})
       /\ (argv'.cmd = "get" /\ Identified(argv'))
            => IF \E r \in table : Targeted(argv', r)
               THEN \E r \in table : Targeted(argv', r) /\ out'.rows = <<r>>
               ELSE out'.msg = "Product not found."]_vars

\* remove --id I --sku S removed the row with id I although S is the sku of
\* another row, which is still there
C5_Witness ==
    /\ argv.cmd = "remove"
    /\ argv.id # None
    /\ argv.sku # None
    /\ out.msg = "Removed"
    /\ \E r \in table : r.sku = argv.sku /\ r.id # argv.id[1]

\* C6: list --sku S, for every string S the argument layer accepts (the empty
\* string too), returns only rows whose sku equals S.
C6_ListSkuFilters ==
    (argv.cmd = "list" /\ argv.sku # None)
        => \A k \in 1..Len(out.rows) : out.rows[k].sku = argv.sku

\* C7: remove, get and update-qty with neither --id nor --sku run no statement
\* on the table: it is unchanged, a guidance message is printed.
C7_NoIdentifierNoEffect ==
    [][(argv'.cmd \in {"remove", "get", "update-qty"} /\ ~Identified(argv'))
          => /\ table' = table
             /\ seq' = seq
             /\ out'.sql = "NONE"
             /\ out'.msg = CASE argv'.cmd = "remove" ->
                                    "Provide --id or --sku to remove a product."
                             [] argv'.cmd = "get" ->
                                    "Provide --id or --sku to get a product."
                             [] OTHER ->
                                    "Provide --id or --sku to identify a product."]_vars

\* update-qty without an identifier on a non-empty table
C7_Witness ==
    /\ argv.cmd = "update-qty"
    /\ ~Identified(argv)
    /\ table # {}
    /\ out.msg = "Provide --id or --sku to identify a product."

\* C8 as stated: after remove --id I has run, get --id I reports "not found" in
\* every later invocation.
C8_RemovedIdNeverFound ==
    (argv.cmd = "get" /\ argv.id # None /\ noted # None /\ argv.id[1] = noted[1].id)
        => out.msg = "Product not found."

\* C8 amended: after remove --id I has run for an id I not greater than the
\* highest id assigned so far, get --id I reports "not found" in every later
\* invocation (no later add brings back a row with id I); and remove --id I
\* deletes no row other than the one with id I.
C8_RemovedAssignedIdNeverFound ==
    /\ []((argv.cmd = "get" /\ argv.id # None /\ noted # None /\ noted[1].assigned
              /\ argv.id[1] = noted[1].id)
             => out.msg = "Product not found.")
    /\ []((noted # None /\ noted[1].assigned) => noted[1].id \notin Ids(table))
    /\ [][(argv'.cmd = "remove" /\ argv'.id # None)
             => \A r \in table : r.id # argv'.id[1] => r \in table']_vars

\* get --id I is "not found" for an id I that was assigned and then removed,
\* while a row with a greater id is in the table
C8_Witness ==
    /\ argv.cmd = "get"
    /\ argv.id # None
    /\ noted # None
    /\ noted[1].assigned
    /\ argv.id[1] = noted[1].id
    /\ argv.id[1] \in {addedIds[j] : j \in 1..Len(addedIds)}
    /\ out.msg = "Product not found."
    /\ \E r \in table : r.id > argv.id[1]

\* C9: no command changes the id, sku, title, artist, year or price of an
\* existing row; update-qty changes only the quantity of the row it matches and
\* leaves every other row unchanged; init, help, list and get leave the whole
\* table unchanged.
C9_OnlyQuantityChanges ==
    [][/\ \A r \in table : \A r2 \in table' :
             r2.id = r.id => [r2 EXCEPT !.quantity = r.quantity] = r
       /\ argv'.cmd = "update-qty"
            => /\ Ids(table') = Ids(table)
               /\ Cardinality(table') = Cardinality(table)
               /\ \A r \in table : ~Targeted(argv', r) => r \in table'
       /\ argv'.cmd \in {"init", "help", "list", "get"} => table' = table]_vars

\* update-qty changed one row of two
C9_Witness ==
    /\ argv.cmd = "update-qty"
    /\ out.msg = "Updated quantity for"
    /\ Cardinality(table) = 2
    /\ \E r \in table : ~Targeted(argv, r)
    /\ \E r \in table : Targeted(argv, r) /\ r.quantity \notin {a.quantity : a \in AddInputs}

\* C10 as stated: every row has a title that is present and non-empty.
C10_TitleNonEmpty ==
    \A r \in table : r.title # None /\ r.title # Some("")

\* C10 amended: every row has a title that is present (not null): it is the
\* string given to add --title, which may be the empty string.
C10_TitlePresent ==
    /\ [](\A r \in table : r.title # None)
    /\ [][(AddSucceeded /\ argv' # NoArgv)
             => \A r \in table' \ table : r.title = argv'.title]_vars

\* add --title "" stored a product with the empty title
C10_Witness ==
    /\ argv.cmd = "add"
    /\ argv.title = Some("")
    /\ out.msg = "Added product"
    /\ \E r \in table : r.id = out.n /\ r.title = Some("")

====
